---- MODULE Spec2Model ----
(***************************************************************************)
(* Model of the GCN scoring service (backend/gcn/app.py, model.py).        *)
(*                                                                         *)
(* The service is stateless: a request is received, validated by the       *)
(* request schema, handled by one endpoint function and answered.  The    *)
(* utility functions (build_adj_matrix, normalize_adj, normalize_scores)   *)
(* are operators; they are exercised both directly, on inputs drawn from   *)
(* bounded sets, and through the handlers.                                 *)
(***************************************************************************)
EXTENDS Integers, Sequences, FiniteSets, TLC

VARIABLES pc, call, req, resp, graph, trace

vars == <<pc, call, req, resp, graph, trace>>

(***************************************************************************)
(* Bounds of the model.                                                    *)
(***************************************************************************)
MaxNodes == 2
MaxEdges == 2

(***************************************************************************)
(* Matrices are functions over 0..n-1 (the code's indices are 0-based).    *)
(***************************************************************************)
Idx(n) == 0..(n - 1)

Zeros(n) == [i \in Idx(n) |-> [j \in Idx(n) |-> 0]]

Ones(n) == [i \in Idx(n) |-> [j \in Idx(n) |-> 1]]

Eye(n) == [i \in Idx(n) |-> [j \in Idx(n) |-> IF i = j THEN 1 ELSE 0]]

Dim(A) == Cardinality(DOMAIN A)

(***************************************************************************)
(* ndarray item assignment A[i, j] = v: an index in -n..n-1 addresses the  *)
(* array (a negative one counts from the end), any other raises            *)
(* IndexError.  st is the running state [raised, A] of the builder.        *)
(***************************************************************************)
NpIndexOk(n, i) == -n <= i /\ i < n

NpIndex(n, i) == IF i < 0 THEN i + n ELSE i

SetItem(st, n, i, j, v) ==
    IF st.raised THEN st
    ELSE IF NpIndexOk(n, i) /\ NpIndexOk(n, j)
         THEN [st EXCEPT !.A[NpIndex(n, i)][NpIndex(n, j)] = v]
         ELSE [st EXCEPT !.raised = TRUE]

(***************************************************************************)
(* build_adj_matrix: the guard of one edge, the body of the edge loop,     *)
(* the edge loop, the self-loop loop.                                      *)
(***************************************************************************)
EdgeGuardOffByOne(n, e) ==
    /\ Len(e) >= 2
    /\ 0 <= e[1] /\ e[1] <= n
    /\ 0 <= e[2] /\ e[2] <= n

EdgeGuard(n, e) ==
    /\ Len(e) >= 2
    /\ 0 <= e[1] /\ e[1] < n
    /\ 0 <= e[2] /\ e[2] < n

EdgeStepOneWay(st, n, e) ==
    IF EdgeGuard(n, e) THEN SetItem(st, n, e[1], e[2], 1) ELSE st

EdgeStep(st, n, e) ==
    IF EdgeGuard(n, e)
    THEN SetItem(SetItem(st, n, e[1], e[2], 1), n, e[2], e[1], 1)
    ELSE st

RECURSIVE EdgeLoop(_, _, _, _)
EdgeLoop(st, n, edges, k) ==
    IF k > Len(edges) THEN st
    ELSE EdgeLoop(EdgeStep(st, n, edges[k]), n, edges, k + 1)

\* the self-loop loop left out
NoSelfLoops(st, n, i) == st

RECURSIVE SelfLoops(_, _, _)
SelfLoops(st, n, i) ==
    IF i >= n THEN st
    ELSE SelfLoops(SetItem(st, n, i, i, 1), n, i + 1)

build_adj_matrix(n, edges) ==
    SelfLoops(EdgeLoop([raised |-> FALSE, A |-> Zeros(n)], n, edges, 1), n, 0)

(***************************************************************************)
(* normalize_adj.  Its arithmetic is followed at the precision the claims  *)
(* about it need: a value is exactly zero, a positive finite number, +inf  *)
(* or NaN (IEEE rules for products and sums of non-negative operands).     *)
(* The entries of an adjacency matrix are non-negative integers.           *)
(***************************************************************************)
FromNum(v) == IF v = 0 THEN "zero" ELSE "pos"

FMul(a, b) ==
    IF a = "nan" \/ b = "nan" THEN "nan"
    ELSE IF (a = "zero" /\ b = "inf") \/ (a = "inf" /\ b = "zero") THEN "nan"
    ELSE IF a = "zero" \/ b = "zero" THEN "zero"
    ELSE IF a = "inf" \/ b = "inf" THEN "inf"
    ELSE "pos"

FAdd(a, b) ==
    IF a = "nan" \/ b = "nan" THEN "nan"
    ELSE IF a = "inf" \/ b = "inf" THEN "inf"
    ELSE IF a = "pos" \/ b = "pos" THEN "pos"
    ELSE "zero"

RECURSIVE RowSum(_, _, _)
RowSum(A, i, j) ==
    IF j >= Dim(A) THEN 0 ELSE A[i][j] + RowSum(A, i, j + 1)

\* np.sum(A, axis=1)
Degree(A) == [i \in DOMAIN A |-> RowSum(A, i, 0)]

\* 1.0 / np.sqrt(d)
InvSqrt(d) == IF d > 0 THEN "pos" ELSE IF d = 0 THEN "inf" ELSE "nan"

\* np.where(D > 0, 1.0 / np.sqrt(D), 0.0), one element
DInvSqrt(d) == IF d > 0 THEN InvSqrt(d) ELSE "zero"

\* np.diag(v)
Diag(v) == [i \in DOMAIN v |-> [j \in DOMAIN v |-> IF i = j THEN v[i] ELSE "zero"]]

RECURSIVE DotFrom(_, _, _, _, _)
DotFrom(X, Y, i, j, k) ==
    IF k >= Dim(X) THEN "zero"
    ELSE FAdd(FMul(X[i][k], Y[k][j]), DotFrom(X, Y, i, j, k + 1))

\* X @ Y for square matrices of one size
MatMul(X, Y) == [i \in DOMAIN X |-> [j \in DOMAIN X |-> DotFrom(X, Y, i, j, 0)]]

normalize_adj(A) ==
    LET D == Degree(A)
        D_inv_sqrt == [i \in DOMAIN A |-> DInvSqrt(D[i])]
        D_mat == Diag(D_inv_sqrt)
        AF == [i \in DOMAIN A |-> [j \in DOMAIN A |-> FromNum(A[i][j])]]
    IN  MatMul(MatMul(D_mat, AF), D_mat)

(***************************************************************************)
(* normalize_scores.  Raw scores are float32 numbers; the model takes them *)
(* from the grid k * 2^-20 (k an integer below 2^24, so each is a float32  *)
(* and so is every difference of two of them).  The elements of the score  *)
(* array are float32 scalars, so 100.0 * (s - s_min) / (s_max - s_min) is  *)
(* evaluated in float32, each operation rounded to nearest-even.  A        *)
(* float32 is [m, e], m * 2^e with 2^23 <= m < 2^24, or m = 0.             *)
(***************************************************************************)
GridInv == 2^20

\* NaN among the raw scores and the gradients, which are otherwise >= 0: the
\* value of -out.var() for a single output, and of everything computed from it
NaN == -1

\* NaN as a float32
F32NaN == [m |-> NaN, e |-> 0]

TolInv == 1000000

F32Zero == [m |-> 0, e |-> 0]

RECURSIVE DropBits(_)
DropBits(x) == IF x < 2^24 THEN 0 ELSE 1 + DropBits(x \div 2)

RECURSIVE Norm(_, _)
Norm(m, e) ==
    IF m = 0 THEN F32Zero
    ELSE IF m >= 2^24 THEN Norm(m \div 2, e + 1)
    ELSE IF m < 2^23 THEN Norm(2 * m, e - 1)
    ELSE [m |-> m, e |-> e]

\* round-to-nearest-even of (x + sticky) * 2^e to 24 significant bits
F32Round(x, e, sticky) ==
    LET sh == DropBits(x)
        q == x \div 2^sh
        r == x % 2^sh
        half == IF sh = 0 THEN 1 ELSE 2^(sh - 1)
        up == sh > 0 /\ (r > half \/ (r = half /\ (sticky \/ q % 2 = 1)))
    IN  Norm(IF up THEN q + 1 ELSE q, e + sh)

\* the float32 of the grid number d * 2^-20
FromGrid(d) == Norm(d, -20)

\* 100.0 * a
MulHundred(a) == IF a.m = 0 THEN F32Zero ELSE F32Round(100 * a.m, a.e, FALSE)

RECURSIVE LongDiv(_, _, _, _)
LongDiv(rem, den, bits, acc) ==
    IF bits = 0 THEN [q |-> acc, rem |-> rem]
    ELSE IF 2 * rem >= den
         THEN LongDiv(2 * rem - den, den, bits - 1, 2 * acc + 1)
         ELSE LongDiv(2 * rem, den, bits - 1, 2 * acc)

\* a / b, b # 0
F32Div(a, b) ==
    IF a.m = 0 THEN F32Zero
    ELSE LET d == LongDiv(a.m % b.m, b.m, 25, a.m \div b.m)
         IN  F32Round(d.q, a.e - b.e - 25, d.rem # 0)

\* a <= b; false when either is NaN
F32Le(a, b) ==
    IF a.m = NaN \/ b.m = NaN THEN FALSE
    ELSE IF a.m = 0 THEN TRUE
    ELSE IF b.m = 0 THEN FALSE
    ELSE a.e < b.e \/ (a.e = b.e /\ a.m <= b.m)

F32Fifty == Norm(50, 0)

F32Hundred == Norm(100, 0)

RECURSIVE SeqMin(_)
SeqMin(s) ==
    IF Len(s) = 1 THEN s[1]
    ELSE LET t == SeqMin(Tail(s)) IN IF s[1] < t THEN s[1] ELSE t

RECURSIVE SeqMax(_)
SeqMax(s) ==
    IF Len(s) = 1 THEN s[1]
    ELSE LET t == SeqMax(Tail(s)) IN IF s[1] > t THEN s[1] ELSE t

\* s_max - s_min < 1e-6, for a difference of d grid units
BelowTol(d) == d <= (GridInv - 1) \div TolInv

\* 100.0 * (s - s_min) / (s_max - s_min)
Rescale(s, s_min, s_max) ==
    F32Div(MulHundred(FromGrid(s - s_min)), FromGrid(s_max - s_min))

\* scores.min() and scores.max() are NaN when an element is; then the test
\* s_max - s_min < 1e-6 is false and every quotient is NaN
normalize_scores(scores) ==
    LET s_min == SeqMin(scores)
        s_max == SeqMax(scores)
    IN  IF \E i \in 1..Len(scores) : scores[i] = NaN
        THEN [i \in 1..Len(scores) |-> F32NaN]
        ELSE IF BelowTol(s_max - s_min)
        THEN [i \in 1..Len(scores) |-> F32Fifty]
        ELSE [i \in 1..Len(scores) |-> Rescale(scores[i], s_min, s_max)]

(***************************************************************************)
(* Requests.  An Optional[List] field is [given, val]: given = FALSE is    *)
(* None.  A feature matrix is the list of its row widths; the values of    *)
(* the features only reach the response through the model's output, which  *)
(* is chosen nondeterministically (weights are random per request).        *)
(***************************************************************************)
None == [given |-> FALSE, val |-> <<>>]

Some(v) == [given |-> TRUE, val |-> v]

\* the truth value of an Optional[List] in a condition: None and [] are false
Truthy(opt) == opt.given /\ Len(opt.val) > 0

IsNotNone(opt) == opt.given

\* np.array(features, dtype=np.float32).shape, or the error of a ragged list
Shape(features) ==
    IF Len(features) = 0 THEN [ok |-> TRUE, dims |-> <<0>>]
    ELSE IF \A i \in 1..Len(features) : features[i] = features[1]
         THEN [ok |-> TRUE, dims |-> <<Len(features), features[1]>>]
         ELSE [ok |-> FALSE, dims |-> <<>>]

\* n, f = X.shape succeeds
Unpacks(features) == Shape(features).ok /\ Len(Shape(features).dims) = 2

(***************************************************************************)
(* The outcome of the body of a handler's try block: a returned body or a  *)
(* raised exception, with the computation done on the way (trace) and the  *)
(* matrix handed to normalize_adj (graph).                                 *)
(***************************************************************************)
NoGraph ==
    [source |-> "none", handed |-> FALSE, dtype |-> "", A |-> <<>>, A_norm |-> <<>>]

\* build_adj_matrix and np.ones make float32 matrices; adding np.eye(n), a
\* float64 matrix, makes the sum float64, and normalize_adj keeps the type
DType(source) == IF source \in {"correlation", "knn"} THEN "float64" ELSE "float32"

Handed(source, A) ==
    [source |-> source, handed |-> TRUE, dtype |-> DType(source), A |-> A,
     A_norm |-> normalize_adj(A)]

Ev(op, model, k) == [op |-> op, model |-> model, k |-> k]

Return(body, tr, g) ==
    [kind |-> "return", exc |-> "", status |-> 200, detail |-> <<>>,
     body |-> body, trace |-> tr, graph |-> g]

Raise(exc, detail, tr, g) ==
    [kind |-> "raise", exc |-> exc, status |-> 0, detail |-> detail,
     body |-> <<>>, trace |-> tr, graph |-> g]

\* raise HTTPException(status_code=status, detail=detail)
RaiseHTTP(status, detail, tr, g) ==
    [kind |-> "raise", exc |-> "HTTPException", status |-> status,
     detail |-> detail, body |-> <<>>, trace |-> tr, graph |-> g]

\* an HTTPException raised in the try block passes the except clause
CatchAllButHTTP(out) ==
    IF out.kind = "raise" /\ out.exc = "HTTPException"
    THEN [status |-> out.status, detail |-> out.detail, body |-> <<>>]
    ELSE IF out.kind = "raise"
    THEN [status |-> 500, detail |-> <<out.exc, out.status, out.detail>>, body |-> <<>>]
    ELSE [status |-> 200, detail |-> <<>>, body |-> out.body]

\* except Exception as e: raise HTTPException(status_code=500, detail=str(e))
CatchAll(out) ==
    IF out.kind = "raise"
    THEN [status |-> 500, detail |-> <<out.exc, out.status, out.detail>>, body |-> <<>>]
    ELSE [status |-> 200, detail |-> <<>>, body |-> out.body]

(***************************************************************************)
(* train_model: the epoch loop; a snapshot every 10th epoch.  The loss is  *)
(* named by the epoch that computed it.  With no epoch run the final       *)
(* float(loss.item()) reads an unbound name.                               *)
(***************************************************************************)
\* one pass of the loop body: an optimiser step, a snapshot every 10th epoch
TrainEpoch(st, epoch) ==
    [steps |-> st.steps + 1, last |-> epoch,
     history |-> IF epoch % 10 = 0 THEN Append(st.history, epoch) ELSE st.history]

\* for epoch in range(lo, hi), in order.  The range is split in halves to bound
\* the nesting, and st.steps (never negative) is read first so that the state
\* left by the first half is computed before the second half starts.
RECURSIVE TrainLoop(_, _, _)
TrainLoop(lo, hi, st) ==
    IF lo >= hi \/ st.steps < 0 THEN st
    ELSE IF hi = lo + 1 THEN TrainEpoch(st, lo)
    ELSE TrainLoop((lo + hi) \div 2, hi, TrainLoop(lo, (lo + hi) \div 2, st))

train_model(epochs) ==
    LET st == TrainLoop(0, epochs, [steps |-> 0, last |-> -1, history |-> <<>>])
    IN  [raised |-> st.steps = 0, steps |-> st.steps,
         info |-> [final_loss |-> st.last, history |-> st.history]]

\* train_info = {}
NoTraining == [final_loss |-> -1, history |-> <<>>]

(***************************************************************************)
(* A forward pass.  It fails when the adjacency does not fit the features  *)
(* (matrix product of an m x m with an n x f matrix), when the adjacency   *)
(* is float64 and is multiplied with the float32 features (every model but *)
(* the attention model, which only tests adj > 0), for the temporal model  *)
(* (which unpacks a 3-d shape from the 2-d features), and for the deep     *)
(* model in training mode on a single node (batch normalisation of one     *)
(* value per channel).  Otherwise it yields one raw score per node.        *)
(*                                                                         *)
(* Training on a single node: the loss holds -out.var(), the variance of   *)
(* one value, which is NaN; its gradient is NaN, so the first optimiser    *)
(* step makes every weight NaN, and so is every later output and input     *)
(* gradient of the model.                                                  *)
(***************************************************************************)
ForwardRaises(model_type, n, g, training) ==
    \/ Dim(g.A) # n
    \/ g.dtype = "float64" /\ model_type # "gat"
    \/ model_type = "temporal"
    \/ model_type = "deep" /\ training /\ n = 1

RawGrid == {0, 671091}

RawScores(n) == [1..n -> RawGrid]

\* the weights after training are NaN
TrainedToNaN(n, epochs) == epochs > 0 /\ n = 1

\* the outputs of the scoring forward pass
Outputs(n, epochs) ==
    IF TrainedToNaN(n, epochs) THEN {[i \in 1..n |-> NaN]} ELSE RawScores(n)

\* {nodes[i]: float(norm_scores[i]) for i in range(n)}: a later duplicate wins
ScoresDict(nodes, n, norm) ==
    [name \in {nodes[i] : i \in 1..n} |->
        norm[CHOOSE i \in 1..n : nodes[i] = name /\ \A j \in (i+1)..n : nodes[j] # name]]

(***************************************************************************)
(* build_correlation_graph.  A returns matrix is a list of rows of         *)
(* integers of one length T.  With S(i,j) = T * sum(ri*rj) - sum(ri) *     *)
(* sum(rj) (T^2 times the covariance), corr(i,j) = S(i,j) / sqrt(S(i,i) *  *)
(* S(j,j)); it is NaN for a constant row, and NaN > threshold is false.    *)
(* For a single row np.corrcoef yields a 0-d value and np.fill_diagonal    *)
(* raises.  A threshold <<p, q>> is the number p / q.                      *)
(***************************************************************************)
RECURSIVE DotSeq(_, _)
DotSeq(a, b) == IF Len(a) = 0 THEN 0 ELSE a[1] * b[1] + DotSeq(Tail(a), Tail(b))

RECURSIVE SumSeq(_)
SumSeq(s) == IF Len(s) = 0 THEN 0 ELSE s[1] + SumSeq(Tail(s))

Cov(a, b) == Len(a) * DotSeq(a, b) - SumSeq(a) * SumSeq(b)

\* np.abs(corr_matrix)[i, j] > threshold
AboveThreshold(a, b, thr) ==
    /\ Cov(a, a) > 0
    /\ Cov(b, b) > 0
    /\ Cov(a, b) * Cov(a, b) * thr[2] * thr[2] > thr[1] * thr[1] * Cov(a, a) * Cov(b, b)

build_correlation_graph(returns, thr) ==
    IF Len(returns) < 2 THEN [raised |-> TRUE, A |-> <<>>]
    ELSE [raised |-> FALSE,
          A |-> [i \in Idx(Len(returns)) |-> [j \in Idx(Len(returns)) |->
                    IF i # j /\ AboveThreshold(returns[i + 1], returns[j + 1], thr)
                    THEN 1 ELSE 0]]]

(***************************************************************************)
(* build_knn_graph.  kneighbors_graph(features, k, include_self=False)     *)
(* gives every node k neighbours other than itself and raises when there   *)
(* are not k other nodes; which neighbours depends on the features, so the *)
(* result is any such choice.  np.maximum(adj, adj.T) makes it undirected. *)
(***************************************************************************)
Neighbours(n, k) ==
    {nb \in [Idx(n) -> SUBSET Idx(n)] :
        \A i \in Idx(n) : i \notin nb[i] /\ Cardinality(nb[i]) = k}

build_knn_graph(n, k) ==
    IF k > n - 1 THEN {[raised |-> TRUE, A |-> <<>>]}
    ELSE {[raised |-> FALSE,
           A |-> [i \in Idx(n) |-> [j \in Idx(n) |->
                    IF j \in nb[i] \/ i \in nb[j] THEN 1 ELSE 0]]]
          : nb \in Neighbours(n, k)}

\* A + np.eye(n): elementwise for equal shapes, a 1 x 1 operand is broadcast,
\* any other pair of shapes raises
AddEye(A, n) ==
    IF Dim(A) = n
    THEN [raised |-> FALSE, A |-> [i \in Idx(n) |-> [j \in Idx(n) |-> A[i][j] + Eye(n)[i][j]]]]
    ELSE IF n = 1
    THEN [raised |-> FALSE, A |-> [i \in DOMAIN A |-> [j \in DOMAIN A |-> A[i][j] + 1]]]
    ELSE IF Dim(A) = 1
    THEN [raised |-> FALSE, A |-> [i \in Idx(n) |-> [j \in Idx(n) |-> A[0][0] + Eye(n)[i][j]]]]
    ELSE [raised |-> TRUE, A |-> <<>>]

(***************************************************************************)
(* create_model: the factory and the keyword parameters each model's       *)
(* constructor accepts besides in_feats.                                   *)
(***************************************************************************)
ModelTypes == {"simple", "deep", "gat", "hybrid", "temporal"}

InitKwargs(model_type) ==
    CASE model_type = "simple" -> {"hidden", "out_feats"}
      [] model_type = "deep" -> {"hidden_dims", "out_feats", "dropout", "use_bn"}
      [] model_type = "gat" -> {"hidden", "out_feats", "heads", "dropout"}
      [] model_type = "hybrid" -> {"gcn_hidden", "lstm_hidden", "out_feats", "dropout"}
      [] model_type = "temporal" -> {"seq_len", "hidden", "out_feats", "num_layers", "dropout"}

\* "ok", or the exception raised
create_model(model_type, kwargs) ==
    IF model_type \notin ModelTypes THEN "ValueError"
    ELSE IF ~(kwargs \subseteq InitKwargs(model_type)) THEN "TypeError"
    ELSE "ok"

(***************************************************************************)
(* construct -> (optional) train -> eval -> forward -> normalize_scores,   *)
(* as gcn_predict, gcn_advanced and gcn_compare each do it.  tr is the     *)
(* trace up to and including the model's construction.  The train event    *)
(* carries the number of optimiser steps that completed.                   *)
(***************************************************************************)
\* model.eval() left out: the scoring forward pass follows training directly
RunModelNoEval(model_type, n, g, epochs, tr) ==
    LET trains == epochs > 0
        trainFails == trains /\ ForwardRaises(model_type, n, g, TRUE)
        t == IF trains /\ ~trainFails THEN train_model(epochs).info ELSE NoTraining
        tr1 == IF ~trains THEN tr
               ELSE Append(tr, Ev("train", model_type, IF trainFails THEN 0 ELSE epochs))
        tr2 == Append(tr1, Ev("forward", model_type, n))
    IN  IF trainFails
        THEN {[raised |-> TRUE, trace |-> tr1, training |-> t, norm |-> <<>>]}
        ELSE IF ForwardRaises(model_type, n, g, trains)
        THEN {[raised |-> TRUE, trace |-> tr2, training |-> t, norm |-> <<>>]}
        ELSE {[raised |-> FALSE, trace |-> tr2, training |-> t,
               norm |-> normalize_scores(raw)] : raw \in Outputs(n, epochs)}

RunModel(model_type, n, g, epochs, tr) ==
    LET trains == epochs > 0
        trainFails == trains /\ ForwardRaises(model_type, n, g, TRUE)
        t == IF trains /\ ~trainFails THEN train_model(epochs).info ELSE NoTraining
        tr1 == IF ~trains THEN tr
               ELSE Append(tr, Ev("train", model_type, IF trainFails THEN 0 ELSE epochs))
        tr2 == tr1 \o <<Ev("eval", model_type, 0), Ev("forward", model_type, n)>>
    IN  IF trainFails
        THEN {[raised |-> TRUE, trace |-> tr1, training |-> t, norm |-> <<>>]}
        ELSE IF ForwardRaises(model_type, n, g, FALSE)
        THEN {[raised |-> TRUE, trace |-> tr2, training |-> t, norm |-> <<>>]}
        ELSE {[raised |-> FALSE, trace |-> tr2, training |-> t,
               norm |-> normalize_scores(raw)] : raw \in Outputs(n, epochs)}

(***************************************************************************)
(* POST /gcn/predict                                                       *)
(***************************************************************************)
gcn_predict(r) ==
    IF ~Unpacks(r.features)
    THEN {Raise("ValueError", <<"shape">>, <<>>, NoGraph)}
    ELSE
    LET n == Shape(r.features).dims[1]
        f == Shape(r.features).dims[2]
        built == build_adj_matrix(n, r.adjacency.val)
        g == Handed("explicit", built.A)
        tr == <<Ev("create_model", "simple", f)>>
    IN  IF n = 0
        THEN {Return([scores |-> <<>>, info |-> [error |-> "no nodes"]], <<>>, NoGraph)}
        ELSE IF built.raised
        THEN {Raise("IndexError", <<"adjacency">>, <<>>, NoGraph)}
        ELSE { IF m.raised
               THEN Raise("RuntimeError", <<"forward">>, m.trace, g)
               ELSE IF Len(r.nodes) < n
               THEN Raise("IndexError", <<"nodes">>, m.trace, g)
               ELSE Return([scores |-> ScoresDict(r.nodes, n, m.norm),
                            info |-> [n_nodes |-> n, n_features |-> f,
                                      train_epochs |-> r.train_epochs,
                                      training |-> m.training]],
                           m.trace, g)
               : m \in RunModel("simple", n, g, r.train_epochs, tr) }

(***************************************************************************)
(* POST /gcn/cluster                                                       *)
(***************************************************************************)
gcn_cluster(r) ==
    IF ~Unpacks(r.features)
    THEN {Raise("ValueError", <<"shape">>, <<>>, NoGraph)}
    ELSE
    LET n == Shape(r.features).dims[1]
        f == Shape(r.features).dims[2]
        k == r.n_clusters
        tr == IF f > 2 THEN <<Ev("KMeans", "", k), Ev("PCA", "", 2)>>
              ELSE <<Ev("KMeans", "", k)>>
    IN  IF n < k
        THEN {RaiseHTTP(400, <<"nodes", n, "n_clusters", k>>, <<>>, NoGraph)}
        ELSE IF Len(r.nodes) < n \/ f < 2
        THEN {Raise("IndexError", <<"clusters">>, tr, NoGraph)}
        ELSE {Return([node_labels |-> ScoresDict(r.nodes, n, labels),
                      n_clusters |-> k], tr, NoGraph)
              : labels \in [1..n -> 0..(k - 1)]}

(***************************************************************************)
(* POST /gcn/importance.  The mean absolute gradient of each feature       *)
(* column is a non-negative number g, or NaN when the weights are; the     *)
(* importance is g over their sum, kept as the pair <<g, sum>>, and        *)
(* <<0, 0>> is the NaN of 0 / 0 and of a NaN gradient.                     *)
(***************************************************************************)
ImportanceEpochs == 100

GradGrid == {0, 1, 2}

\* x.grad.abs().mean(dim=0) after training for ImportanceEpochs epochs
Gradients(n, f) ==
    IF TrainedToNaN(n, ImportanceEpochs) THEN {[i \in 1..f |-> NaN]}
    ELSE [1..f -> GradGrid]

\* (gradients / gradients.sum())[i]
Importance(grad, i) ==
    IF grad[i] = NaN \/ SumSeq(grad) = 0 THEN <<0, 0>> ELSE <<grad[i], SumSeq(grad)>>

\* s[:k]
FirstN(s, k) == SubSeq(s, 1, IF Len(s) < k THEN Len(s) ELSE k)

\* list.sort(key=importance, reverse=True): stable, larger first
RECURSIVE InsertDesc(_, _)
InsertDesc(sorted, x) ==
    IF Len(sorted) = 0 THEN <<x>>
    ELSE IF sorted[Len(sorted)].importance[1] >= x.importance[1]
         THEN Append(sorted, x)
         ELSE Append(InsertDesc(SubSeq(sorted, 1, Len(sorted) - 1), x), sorted[Len(sorted)])

RECURSIVE SortDesc(_)
SortDesc(s) ==
    IF Len(s) = 0 THEN <<>>
    ELSE InsertDesc(SortDesc(SubSeq(s, 1, Len(s) - 1)), s[Len(s)])

feature_importance(r) ==
    IF ~Unpacks(r.features)
    THEN {Raise("ValueError", <<"shape">>, <<>>, NoGraph)}
    ELSE
    LET n == Shape(r.features).dims[1]
        f == Shape(r.features).dims[2]
        built == build_adj_matrix(n, r.adjacency.val)
        g == Handed("explicit", built.A)
        tr == <<Ev("create_model", "simple", f),
                Ev("train", "simple", train_model(ImportanceEpochs).steps),
                Ev("eval", "simple", 0), Ev("forward", "simple", n),
                Ev("backward", "simple", f)>>
    IN  IF Len(r.feature_names) # f
        THEN {RaiseHTTP(400, <<"feature_names", Len(r.feature_names), "features", f>>,
                        <<>>, NoGraph)}
        ELSE IF built.raised
        THEN {Raise("IndexError", <<"adjacency">>, <<>>, NoGraph)}
        ELSE {LET ranked == SortDesc([i \in 1..f |->
                                [feature |-> r.feature_names[i],
                                 importance |-> Importance(grad, i)]])
              IN  Return([feature_importance |-> ranked,
                          top_features |-> FirstN(ranked, 5),
                          method |-> "gradient_based"], tr, g)
              : grad \in Gradients(n, f)}

(***************************************************************************)
(* Sorting by score and the insertion order of a dict's keys.              *)
(***************************************************************************)
\* the keys of {nodes[i]: ... for i in range(n)}, in insertion order
RECURSIVE DictKeys(_, _)
DictKeys(nodes, n) ==
    IF n = 0 THEN <<>>
    ELSE LET ks == DictKeys(nodes, n - 1)
         IN  IF \E i \in 1..Len(ks) : ks[i] = nodes[n] THEN ks ELSE Append(ks, nodes[n])

\* sorted(items, key=score, reverse=True): stable, larger first
RECURSIVE InsertByScore(_, _)
InsertByScore(sorted, x) ==
    IF Len(sorted) = 0 THEN <<x>>
    ELSE IF F32Le(x.score, sorted[Len(sorted)].score)
         THEN Append(sorted, x)
         ELSE Append(InsertByScore(SubSeq(sorted, 1, Len(sorted) - 1), x), sorted[Len(sorted)])

RECURSIVE SortByScore(_)
SortByScore(s) ==
    IF Len(s) = 0 THEN <<>>
    ELSE InsertByScore(SortByScore(SubSeq(s, 1, Len(s) - 1)), s[Len(s)])

RECURSIVE MatSum(_, _)
MatSum(A, i) == IF i >= Dim(A) THEN 0 ELSE RowSum(A, i, 0) + MatSum(A, i + 1)

(***************************************************************************)
(* POST /gcn/advanced.  SelectGraph is the if / elif chain that picks the  *)
(* graph source; each result is [raised, source, A].                       *)
(***************************************************************************)
Built(source, b) == [raised |-> b.raised, source |-> source, A |-> b.A]

WithEye(source, b, n) ==
    IF b.raised THEN Built(source, b) ELSE Built(source, AddEye(b.A, n))

SelectGraph(r, n) ==
    IF Truthy(r.adjacency)
    THEN {Built("explicit", build_adj_matrix(n, r.adjacency.val))}
    ELSE IF Truthy(r.returns)
    THEN {WithEye("correlation", build_correlation_graph(r.returns.val, r.threshold), n)}
    ELSE IF r.use_knn_graph
    THEN {WithEye("knn", b, n) : b \in build_knn_graph(n, r.knn_k)}
    ELSE {[raised |-> FALSE, source |-> "full", A |-> Ones(n)]}

\* the keyword arguments gcn_advanced passes to create_model for every type
AdvancedKwargs == {"hidden", "hidden_dims", "dropout"}

AdvancedBody(r, n, f, A, m) ==
    LET scores == ScoresDict(r.nodes, n, m.norm)
        keys == DictKeys(r.nodes, n)
        ranked == SortByScore([i \in 1..Len(keys) |->
                                  [node |-> keys[i], score |-> scores[keys[i]]]])
    IN  [scores |-> scores,
         ranking |-> [i \in 1..Len(ranked) |->
                         [rank |-> i, node |-> ranked[i].node, score |-> ranked[i].score]],
         model_type |-> r.model_type,
         info |-> [n_nodes |-> n, n_features |-> f, n_edges |-> MatSum(A, 0) - n,
                   train_epochs |-> r.train_epochs, training |-> m.training]]

AdvancedWithGraph(r, n, f, sel) ==
    LET g == Handed(sel.source, sel.A)
        made == create_model(r.model_type, AdvancedKwargs)
        tr == <<Ev("create_model", r.model_type, f)>>
    IN  IF sel.raised
        THEN {Raise("ValueError", <<"graph", sel.source>>, <<>>, NoGraph)}
        ELSE IF made # "ok"
        THEN {Raise(made, <<"create_model", r.model_type>>, <<>>, g)}
        ELSE { IF m.raised
               THEN Raise("RuntimeError", <<"forward">>, m.trace, g)
               ELSE IF Len(r.nodes) < n
               THEN Raise("IndexError", <<"nodes">>, m.trace, g)
               ELSE Return(AdvancedBody(r, n, f, sel.A, m), m.trace, g)
               : m \in RunModel(r.model_type, n, g, r.train_epochs, tr) }

gcn_advanced(r) ==
    IF ~Unpacks(r.features)
    THEN {Raise("ValueError", <<"shape">>, <<>>, NoGraph)}
    ELSE
    LET n == Shape(r.features).dims[1]
        f == Shape(r.features).dims[2]
    IN  IF n = 0
        THEN {RaiseHTTP(400, <<"No nodes provided">>, <<>>, NoGraph)}
        ELSE UNION {AdvancedWithGraph(r, n, f, sel) : sel \in SelectGraph(r, n)}

(***************************************************************************)
(* POST /gcn/compare.  results is the dict of the handler: keys in         *)
(* insertion order and the entry of each key.  An entry is either the      *)
(* inline error ({"error": ...}) or {"scores": ..., "top5": ...}.          *)
(***************************************************************************)
CompareThreshold == <<3, 10>>

CompareGraph(r, n) ==
    IF Truthy(r.adjacency)
    THEN Built("explicit", build_adj_matrix(n, r.adjacency.val))
    ELSE IF Truthy(r.returns)
    THEN WithEye("correlation", build_correlation_graph(r.returns.val, CompareThreshold), n)
    ELSE [raised |-> FALSE, source |-> "full", A |-> Ones(n)]

ErrorEntry == [error |-> TRUE, scores |-> <<>>, top5 |-> <<>>]

ScoredEntry(nodes, n, norm) ==
    [error |-> FALSE,
     scores |-> ScoresDict(nodes, n, norm),
     top5 |-> FirstN(SortByScore([i \in 1..n |-> [node |-> nodes[i], score |-> norm[i]]]), 5)]

\* the body of the loop over model_types, with its own try / except
CompareOne(r, n, f, g, model_type, tr) ==
    IF create_model(model_type, {}) # "ok"
    THEN {[entry |-> ErrorEntry, trace |-> tr]}
    ELSE { IF m.raised \/ Len(r.nodes) < n
           THEN [entry |-> ErrorEntry, trace |-> m.trace]
           ELSE [entry |-> ScoredEntry(r.nodes, n, m.norm), trace |-> m.trace]
           : m \in RunModel(model_type, n, g, r.train_epochs,
                            Append(tr, Ev("create_model", model_type, f))) }

\* a failing model type leaves no entry
PutScoredOnly(acc, model_type, o) ==
    IF o.entry.error THEN [acc EXCEPT !.trace = o.trace]
    ELSE [keys |-> IF model_type \in DOMAIN acc.val THEN acc.keys
                   ELSE Append(acc.keys, model_type),
          val |-> [x \in DOMAIN acc.val \cup {model_type} |->
                      IF x = model_type THEN o.entry ELSE acc.val[x]],
          trace |-> o.trace]

\* results[model_type] = entry
Put(acc, model_type, o) ==
    [keys |-> IF model_type \in DOMAIN acc.val THEN acc.keys ELSE Append(acc.keys, model_type),
     val |-> [x \in DOMAIN acc.val \cup {model_type} |->
                 IF x = model_type THEN o.entry ELSE acc.val[x]],
     trace |-> o.trace]

RECURSIVE CompareLoop(_, _, _, _, _, _)
CompareLoop(r, n, f, g, k, acc) ==
    IF k > Len(r.model_types) THEN {acc}
    ELSE UNION {CompareLoop(r, n, f, g, k + 1, Put(acc, r.model_types[k], o))
                : o \in CompareOne(r, n, f, g, r.model_types[k], acc.trace)}

RECURSIVE PairsFrom(_, _, _)
PairsFrom(names, i, j) ==
    IF i >= Len(names) THEN <<>>
    ELSE IF j > Len(names) THEN PairsFrom(names, i + 1, i + 2)
    ELSE <<[model1 |-> names[i], model2 |-> names[j]]>> \o PairsFrom(names, i, j + 1)

\* the model agreement block after the loop, and the returned body
CompareFinish(r, n, f, g, res) ==
    LET scored == SelectSeq(res.keys, LAMBDA k : ~res.val[k].error)
        missing == \E i \in 1..Len(scored), j \in 1..Len(r.nodes) :
                       r.nodes[j] \notin DOMAIN res.val[scored[i]].scores
    IN  IF Len(res.keys) >= 2 /\ missing
        THEN Raise("KeyError", <<"nodes">>, res.trace, g)
        ELSE Return([results |-> res.val,
                     keys |-> res.keys,
                     model_agreement |->
                        IF Len(res.keys) >= 2 /\ Len(scored) >= 2
                        THEN Some(PairsFrom(scored, 1, 2)) ELSE None,
                     n_nodes |-> n, n_features |-> f], res.trace, g)

gcn_compare(r) ==
    IF ~Unpacks(r.features)
    THEN {Raise("ValueError", <<"shape">>, <<>>, NoGraph)}
    ELSE
    LET n == Shape(r.features).dims[1]
        f == Shape(r.features).dims[2]
        sel == CompareGraph(r, n)
        g == Handed(sel.source, sel.A)
    IN  IF n = 0
        THEN {RaiseHTTP(400, <<"No nodes provided">>, <<>>, NoGraph)}
        ELSE IF sel.raised
        THEN {Raise("ValueError", <<"graph", sel.source>>, <<>>, NoGraph)}
        ELSE {CompareFinish(r, n, f, g, res)
              : res \in CompareLoop(r, n, f, g, 1,
                                    [keys |-> <<>>, val |-> <<>>, trace |-> <<>>])}

(***************************************************************************)
(* Request validation by the request models (the Field bounds).            *)
(***************************************************************************)
MaxTrainEpochs == 500

MinHiddenDim == 8

MaxHiddenDim == 256

MaxKnnK == 20

MinClusters == 2

MaxClusters == 20

\* a threshold <<p, q>> is the number p / q, q > 0
Valid(r) ==
    CASE r.endpoint = "advanced" ->
            /\ 0 <= r.train_epochs /\ r.train_epochs <= MaxTrainEpochs
            /\ MinHiddenDim <= r.hidden_dim /\ r.hidden_dim <= MaxHiddenDim
            /\ 0 <= r.threshold[1] /\ r.threshold[1] <= r.threshold[2]
            /\ 1 <= r.knn_k /\ r.knn_k <= MaxKnnK
      [] r.endpoint = "cluster" ->
            MinClusters <= r.n_clusters /\ r.n_clusters <= MaxClusters
      [] OTHER -> TRUE

(***************************************************************************)
(* The requests of the model.                                              *)
(***************************************************************************)
NameOrder == <<"A", "B", "C", "D">>

NodeLists ==
    {[i \in 1..k |-> NameOrder[i]] : k \in 0..MaxNodes}
        \cup {[i \in 1..MaxNodes |-> "A"]}

\* the empty list, every n x w matrix, one ragged list
FeatureLists(widths) ==
    {<<>>, <<1, 2>>} \cup {[i \in 1..n |-> w] : n \in 1..MaxNodes, w \in widths}

ReqEdgeLists == {<<>>, <<<<0, 1>>>>, <<<<0, MaxNodes>>>>, <<<<1, 0>>, <<-1, 0>>>>}

TrainEpochValues == {-1, 0, MaxTrainEpochs, MaxTrainEpochs + 1}

BaseReq ==
    [endpoint |-> "", nodes |-> <<>>, features |-> <<>>, adjacency |-> None,
     returns |-> None, model_type |-> "simple", model_types |-> <<>>,
     train_epochs |-> 0, hidden_dim |-> 32, threshold |-> <<3, 10>>,
     use_knn_graph |-> FALSE, knn_k |-> 5, n_clusters |-> 5,
     feature_names |-> <<>>]

PredictRequests ==
    {[BaseReq EXCEPT !.endpoint = "predict", !.nodes = nd, !.features = ft,
                     !.adjacency = Some(ed), !.train_epochs = ep]
     : nd \in NodeLists, ft \in FeatureLists({2}), ed \in ReqEdgeLists,
       ep \in TrainEpochValues}

ClusterRequests ==
    {[BaseReq EXCEPT !.endpoint = "cluster", !.nodes = nd, !.features = ft,
                     !.n_clusters = k]
     : nd \in NodeLists, ft \in FeatureLists({1, 2, 3}),
       k \in {1, MinClusters, 3, MaxClusters, MaxClusters + 1}}

ImportanceRequests ==
    {[BaseReq EXCEPT !.endpoint = "importance", !.nodes = nd, !.features = ft,
                     !.adjacency = Some(ed), !.feature_names = fn]
     : nd \in NodeLists, ft \in FeatureLists({0, 1, 2}), ed \in ReqEdgeLists,
       fn \in {<<>>, <<"x">>, <<"x", "y">>, <<"x", "y", "z">>}}

RowA == <<1, 2, 3>>

RowB == <<1, 3, 2>>

RowC == <<1, 1, 1>>

\* no returns, an empty list, one row, two equal rows, two rows of
\* correlation 1/2, a row with a constant row
ReturnsValues ==
    {None, Some(<<>>), Some(<<RowA>>), Some(<<RowA, RowA>>), Some(<<RowA, RowB>>),
     Some(<<RowA, RowC>>)}

AdvancedRequests ==
    {[BaseReq EXCEPT !.endpoint = "advanced", !.nodes = nd, !.features = ft,
                     !.adjacency = ad, !.returns = rt, !.threshold = th,
                     !.use_knn_graph = kn[1], !.knn_k = kn[2],
                     !.model_type = mt, !.train_epochs = ep]
     : nd \in NodeLists, ft \in FeatureLists({2}),
       ad \in {None, Some(<<>>), Some(<<<<0, 1>>>>)},
       rt \in ReturnsValues, th \in {<<3, 10>>, <<9, 10>>},
       kn \in {<<FALSE, 5>>, <<TRUE, 1>>, <<TRUE, 2>>},
       mt \in {"simple", "deep", "bogus"}, ep \in {0, MaxTrainEpochs}}
    \cup
    \* one field outside its bounds
    {[BaseReq EXCEPT !.endpoint = "advanced", !.nodes = <<"A">>, !.features = <<2>>,
                     !.train_epochs = ep, !.hidden_dim = hd, !.knn_k = k,
                     !.threshold = th]
     : ep \in {-1, 0, MaxTrainEpochs + 1},
       hd \in {MinHiddenDim - 1, MinHiddenDim, MaxHiddenDim, MaxHiddenDim + 1},
       k \in {0, 1, MaxKnnK, MaxKnnK + 1}, th \in {<<0, 1>>, <<1, 1>>, <<11, 10>>}}

ModelTypeLists ==
    LET T == {"simple", "deep", "bogus"}
    IN  {<<>>} \cup {<<a>> : a \in T} \cup {<<a, b>> : a, b \in T}
          \cup {<<"simple", "bogus", "deep">>, <<"temporal", "simple">>, <<"gat", "bogus">>}

CompareRequests ==
    {[BaseReq EXCEPT !.endpoint = "compare", !.nodes = nd, !.features = ft,
                     !.adjacency = ad, !.returns = rt, !.model_types = mts,
                     !.train_epochs = ep]
     : nd \in NodeLists, ft \in FeatureLists({2}),
       ad \in {None, Some(<<<<0, 1>>>>)},
       rt \in {None, Some(<<RowA, RowA>>), Some(<<RowA, RowC>>)},
       mts \in ModelTypeLists, ep \in TrainEpochValues}

(***************************************************************************)
(* Direct uses of the utility functions.                                   *)
(***************************************************************************)
\* an edge: up to three integers from -1..n
EdgeEntries(n) ==
    {<<>>} \cup {<<i>> : i \in -1..n} \cup {<<i, j>> : i, j \in -1..n}
           \cup {<<i, j, 0>> : i, j \in -1..n}

RECURSIVE SeqsUpTo(_, _)
SeqsUpTo(S, k) ==
    IF k = 0 THEN {<<>>}
    ELSE SeqsUpTo(S, k - 1)
           \cup {Append(q, x) : q \in {t \in SeqsUpTo(S, k - 1) : Len(t) = k - 1}, x \in S}

BinaryMatrices(n) == [Idx(n) -> [Idx(n) -> {0, 1}]]

ScoreGrid == {0, 1, 2, 671091}

(***************************************************************************)
(* State: pc is the stage of the one request in progress; req the request; *)
(* resp the response; graph the matrix handed to normalize_adj while       *)
(* handling it; trace the model and library computations done for it;      *)
(* call a direct use of one of the utility functions.                      *)
(***************************************************************************)
NoResp == [status |-> 0, detail |-> <<>>, body |-> <<>>]

NoCall == [fn |-> "", arg |-> <<>>, ret |-> <<>>]

Init ==
    /\ pc = "idle"
    /\ call = NoCall
    /\ req = BaseReq
    /\ resp = NoResp
    /\ graph = NoGraph
    /\ trace = <<>>

Received(r) ==
    /\ req' = r
    /\ pc' = "validating"
    /\ UNCHANGED <<call, resp, graph, trace>>

ReceivePredict ==
    /\ pc = "idle"
    /\ \E r \in PredictRequests : Received(r)

ReceiveAdvanced ==
    /\ pc = "idle"
    /\ \E r \in AdvancedRequests : Received(r)

ReceiveCompare ==
    /\ pc = "idle"
    /\ \E r \in CompareRequests : Received(r)

ReceiveCluster ==
    /\ pc = "idle"
    /\ \E r \in ClusterRequests : Received(r)

ReceiveImportance ==
    /\ pc = "idle"
    /\ \E r \in ImportanceRequests : Received(r)

\* a request outside the Field bounds is answered 422 before the handler runs
Reject ==
    /\ pc = "validating"
    /\ ~Valid(req)
    /\ resp' = [status |-> 422, detail |-> <<"validation">>, body |-> <<>>]
    /\ pc' = "done"
    /\ UNCHANGED <<call, req, graph, trace>>

Accept ==
    /\ pc = "validating"
    /\ Valid(req)
    /\ pc' = "handling"
    /\ UNCHANGED <<call, req, resp, graph, trace>>

\* the handler ran to its return or to its except clause
Handled(out) ==
    /\ resp' = CatchAll(out)
    /\ graph' = out.graph
    /\ trace' = out.trace
    /\ pc' = "done"
    /\ UNCHANGED <<call, req>>

GcnPredict ==
    /\ pc = "handling" /\ req.endpoint = "predict"
    /\ \E out \in gcn_predict(req) : Handled(out)

GcnAdvanced ==
    /\ pc = "handling" /\ req.endpoint = "advanced"
    /\ \E out \in gcn_advanced(req) : Handled(out)

GcnCompare ==
    /\ pc = "handling" /\ req.endpoint = "compare"
    /\ \E out \in gcn_compare(req) : Handled(out)

GcnCluster ==
    /\ pc = "handling" /\ req.endpoint = "cluster"
    /\ \E out \in gcn_cluster(req) : Handled(out)

FeatureImportance ==
    /\ pc = "handling" /\ req.endpoint = "importance"
    /\ \E out \in feature_importance(req) : Handled(out)

Called(fn, arg, ret) ==
    /\ call' = [fn |-> fn, arg |-> arg, ret |-> ret]
    /\ pc' = "called"
    /\ UNCHANGED <<req, resp, graph, trace>>

CallBuildAdjMatrix ==
    /\ pc = "idle"
    /\ \E n \in 0..MaxNodes : \E edges \in SeqsUpTo(EdgeEntries(n), MaxEdges) :
        Called("build_adj_matrix", [n |-> n, edges |-> edges], build_adj_matrix(n, edges))

CallNormalizeAdj ==
    /\ pc = "idle"
    /\ \E n \in 0..MaxNodes : \E A \in BinaryMatrices(n) :
        Called("normalize_adj", [A |-> A], normalize_adj(A))

CallNormalizeScores ==
    /\ pc = "idle"
    /\ \E n \in 1..MaxNodes : \E scores \in [1..n -> ScoreGrid] :
        Called("normalize_scores", [scores |-> scores], normalize_scores(scores))

\* train_model with an epoch count of the API range
CallTrainModel ==
    /\ pc = "idle"
    /\ \E epochs \in 0..MaxTrainEpochs :
        Called("train_model", [epochs |-> epochs], train_model(epochs))

\* the response is sent; nothing of the request is kept
Finish ==
    /\ pc \in {"done", "called"}
    /\ pc' = "idle"
    /\ call' = NoCall
    /\ req' = BaseReq
    /\ resp' = NoResp
    /\ graph' = NoGraph
    /\ trace' = <<>>

Next ==
    \/ ReceivePredict
    \/ ReceiveAdvanced
    \/ ReceiveCompare
    \/ ReceiveCluster
    \/ ReceiveImportance
    \/ Reject
    \/ Accept
    \/ GcnPredict
    \/ GcnAdvanced
    \/ GcnCompare
    \/ GcnCluster
    \/ FeatureImportance
    \/ CallBuildAdjMatrix
    \/ CallNormalizeAdj
    \/ CallNormalizeScores
    \/ CallTrainModel
    \/ Finish

Spec == Init /\ [][Next]_vars

(***************************************************************************)
(* The claims.                                                             *)
(***************************************************************************)
Done(endpoint) == pc = "done" /\ req.endpoint = endpoint

\* n and f of n, f = X.shape, for a request whose features unpack
Rows(r) == Shape(r.features).dims[1]

Cols(r) == Shape(r.features).dims[2]

IsSquare(A, n) == DOMAIN A = Idx(n) /\ \A i \in Idx(n) : DOMAIN A[i] = Idx(n)

Symmetric(A) == \A i, j \in DOMAIN A : A[i][j] = A[j][i]

Binary(A) == \A i, j \in DOMAIN A : A[i][j] \in {0, 1}

UnitDiagonal(A) == \A i \in DOMAIN A : A[i][i] = 1

\* C1: for every n >= 0 and every edge list, the empty one included, the
\* matrix build_adj_matrix returns is n x n, symmetric, has 1 on every
\* diagonal entry and holds only 0 and 1.
C1_AdjSymmetricSelfLoops ==
    call.fn = "build_adj_matrix" =>
        /\ IsSquare(call.ret.A, call.arg.n)
        /\ Symmetric(call.ret.A)
        /\ UnitDiagonal(call.ret.A)
        /\ Binary(call.ret.A)

C1_Witness ==
    /\ call.fn = "build_adj_matrix"
    /\ call.arg.n = 2
    /\ call.arg.edges = <<<<0, 1>>>>
    /\ call.ret.A[1][0] = 1

InRangeEdge(n, e) ==
    Len(e) >= 2 /\ e[1] \in Idx(n) /\ e[2] \in Idx(n)

Joins(e, i, j) == (e[1] = i /\ e[2] = j) \/ (e[1] = j /\ e[2] = i)

\* C2: build_adj_matrix never raises; an entry with an index < 0 or >= n, or
\* with fewer than two elements, is ignored: the result has a 1 exactly on the
\* diagonal and where an in-range entry of the list joins i and j, and it is
\* the matrix built from the list with the other entries removed.
C2_OutOfRangeEdgesDropped ==
    call.fn = "build_adj_matrix" =>
        LET n == call.arg.n
            edges == call.arg.edges
            kept == SelectSeq(edges, LAMBDA e : InRangeEdge(n, e))
        IN  /\ ~call.ret.raised
            /\ \A i, j \in Idx(n) :
                  call.ret.A[i][j] =
                     IF i = j \/ \E k \in 1..Len(edges) :
                                    InRangeEdge(n, edges[k]) /\ Joins(edges[k], i, j)
                     THEN 1 ELSE 0
            /\ call.ret = build_adj_matrix(n, kept)

C2_Witness ==
    /\ call.fn = "build_adj_matrix"
    /\ call.arg.n = 2
    /\ call.arg.edges = <<<<2, 0>>, <<0, 1>>>>
    /\ ~call.ret.raised
    /\ call.ret.A[0][1] = 1

\* C3: in /gcn/advanced the graph source is, in this order: the explicit
\* adjacency whenever the request supplies one (whatever returns and
\* use_knn_graph are), else the correlation graph when returns is supplied,
\* else the k-NN graph when use_knn_graph is true, else the all-ones matrix.
C3_SourcePriority ==
    (Done("advanced") /\ graph.handed) =>
        /\ graph.source =
              IF IsNotNone(req.adjacency) THEN "explicit"
              ELSE IF IsNotNone(req.returns) THEN "correlation"
              ELSE IF req.use_knn_graph THEN "knn"
              ELSE "full"
        /\ IsNotNone(req.adjacency) =>
              graph.A = build_adj_matrix(Rows(req), req.adjacency.val).A

\* C4: whichever source is selected in /gcn/advanced or /gcn/compare, the
\* matrix handed to normalize_adj is symmetric, holds only 0 and 1 and has 1
\* on every diagonal entry.
C4_HandedMatrixBinarySymmetric ==
    ((Done("advanced") \/ Done("compare")) /\ graph.handed) =>
        /\ Symmetric(graph.A)
        /\ Binary(graph.A)
        /\ UnitDiagonal(graph.A)

Finite(M) == \A i, j \in DOMAIN M : M[i][j] \in {"zero", "pos"}

\* C5: on every handler path every row of the matrix handed to normalize_adj
\* has degree >= 1 and the normalized adjacency has no NaN and no infinite
\* entry; and normalize_adj of a matrix with a zero-degree row has that row
\* and that column all zero, and no NaN or infinite entry either.
C5_NormalizedAdjFinite ==
    /\ graph.handed =>
          /\ \A i \in DOMAIN graph.A : Degree(graph.A)[i] >= 1
          /\ Finite(graph.A_norm)
    /\ call.fn = "normalize_adj" =>
          /\ Finite(call.ret)
          /\ \A i \in DOMAIN call.arg.A :
                Degree(call.arg.A)[i] = 0 =>
                   \A j \in DOMAIN call.arg.A :
                      call.ret[i][j] = "zero" /\ call.ret[j][i] = "zero"

\* a handler handed a graph in which a node has no edge but its self-loop
C5_Witness ==
    /\ pc = "done"
    /\ graph.handed
    /\ Dim(graph.A) = 2
    /\ Degree(graph.A)[0] = 1
    /\ graph.A_norm[0][0] = "pos"

\* C6: every entry normalize_scores returns for a non-empty score vector lies
\* in [0, 100], and if max - min is below the tolerance every entry is 50.0.
C6_ScoresWithinRange ==
    call.fn = "normalize_scores" =>
        LET scores == call.arg.scores
        IN  /\ \A i \in 1..Len(scores) :
                  F32Le(F32Zero, call.ret[i]) /\ F32Le(call.ret[i], F32Hundred)
            /\ BelowTol(SeqMax(scores) - SeqMin(scores)) =>
                  \A i \in 1..Len(scores) : call.ret[i] = F32Fifty

ClientError(status) == 400 <= status /\ status <= 499

\* C7: a /gcn/cluster request whose n_clusters exceeds the number of nodes is
\* answered with a client error (4xx) and no clustering is computed.
C7_ClusterTooManyClusters ==
    (Done("cluster") /\ Unpacks(req.features) /\ req.n_clusters > Rows(req)) =>
        /\ ClientError(resp.status)
        /\ trace = <<>>

\* C8: a /gcn/importance request whose feature_names differ in number from
\* the feature columns is answered with a client error (4xx) whose message
\* names both counts, and no model is built or trained.
C8_ImportanceNameMismatch ==
    (Done("importance") /\ Unpacks(req.features)
        /\ Len(req.feature_names) # Cols(req)) =>
        /\ ClientError(resp.status)
        /\ \E i, j \in 1..Len(resp.detail) :
              resp.detail[i] = Len(req.feature_names) /\ resp.detail[j] = Cols(req)
        /\ trace = <<>>

\* the attempt at one model type raises inside the loop of gcn_compare
TypeFails(model_type) ==
    \/ create_model(model_type, {}) # "ok"
    \/ req.train_epochs > 0 /\ ForwardRaises(model_type, Rows(req), graph, TRUE)
    \/ ForwardRaises(model_type, Rows(req), graph, FALSE)

MinOf(a, b) == IF a < b THEN a ELSE b

\* C9: in /gcn/compare a failing model type does not fail the request: for a
\* request with one node name per feature row whose graph was built, the
\* response is returned (200) with n_nodes and n_features, every type that
\* fails has an entry holding only the inline error, and every type that
\* succeeds has an entry with a score per node and the top min(5, n) nodes.
C9_CompareInlineErrors ==
    (Done("compare") /\ graph.handed /\ Len(req.nodes) = Rows(req)) =>
        /\ resp.status = 200
        /\ resp.body.n_nodes = Rows(req)
        /\ resp.body.n_features = Cols(req)
        /\ \A k \in 1..Len(req.model_types) :
              LET t == req.model_types[k]
              IN  /\ t \in DOMAIN resp.body.results
                  /\ IF TypeFails(t)
                     THEN resp.body.results[t] = ErrorEntry
                     ELSE /\ ~resp.body.results[t].error
                          /\ DOMAIN resp.body.results[t].scores
                                = {req.nodes[i] : i \in 1..Len(req.nodes)}
                          /\ Len(resp.body.results[t].top5) = MinOf(5, Rows(req))

C9_Witness ==
    /\ Done("compare")
    /\ req.model_types = <<"simple", "bogus">>
    /\ resp.status = 200
    /\ ~resp.body.results["simple"].error
    /\ resp.body.results["bogus"] = ErrorEntry

\* C10: a request to /gcn/predict, /gcn/advanced or /gcn/compare whose
\* train_epochs is outside 0..500 is rejected with a client error before any
\* model is built or any training step runs.
C10_TrainEpochsBounded ==
    (pc = "done" /\ req.endpoint \in {"predict", "advanced", "compare"}
        /\ (req.train_epochs < 0 \/ req.train_epochs > MaxTrainEpochs)) =>
        /\ ClientError(resp.status)
        /\ trace = <<>>

Distinct(s) == \A i, j \in 1..Len(s) : s[i] = s[j] => i = j

NodeSet(r) == {r.nodes[i] : i \in 1..Len(r.nodes)}

\* the request passes validation and has N >= 1 feature rows, N distinct node
\* names and a model type of the factory
WellFormed ==
    /\ Valid(req)
    /\ Unpacks(req.features)
    /\ Rows(req) >= 1
    /\ Len(req.nodes) = Rows(req)
    /\ Distinct(req.nodes)
    /\ req.model_type \in ModelTypes

\* the graph of the request was built, with one row per node
GraphFits == graph.handed /\ Dim(graph.A) = Rows(req)

NoTrainStep == \A k \in 1..Len(trace) : trace[k].op # "train"

\* C11: a well-formed /gcn/predict or /gcn/advanced request with
\* train_epochs = 0 executes no training step (train_model is not called) and
\* is answered with a response whose info.training is the empty object.
C11_NoTrainingAtZeroEpochs ==
    ((Done("predict") \/ Done("advanced")) /\ req.train_epochs = 0
        /\ WellFormed /\ GraphFits) =>
        /\ NoTrainStep
        /\ resp.status = 200
        /\ resp.body.info.training = NoTraining

InRange(x) == F32Le(F32Zero, x) /\ F32Le(x, F32Hundred)

\* C12: in a successful /gcn/predict or /gcn/advanced response to a request
\* with N nodes and N feature rows, the keys of the scores dict are exactly the
\* request's node identifiers and every value lies in [0, 100].
C12_ScoresKeysAndRange ==
    ((Done("predict") \/ Done("advanced")) /\ WellFormed /\ resp.status = 200) =>
        /\ DOMAIN resp.body.scores = NodeSet(req)
        /\ \A k \in DOMAIN resp.body.scores : InRange(resp.body.scores[k])

\* the handler of the request ran (the request passed validation)
HandlerRan == pc = "done" /\ Valid(req)

\* C13: in every POST handler an exception raised during the computation is
\* caught by the handler: the request ends with HTTP 500 and a detail that
\* carries the exception; the only other end of a handler is its return (200).
\* The exceptions the handlers raise themselves (a shape that does not unpack,
\* no nodes, too many clusters, a wrong number of feature names, an unknown
\* model type) all end this way.
C13_ExceptionsBecome500 ==
    HandlerRan =>
        /\ resp.status \in {200, 500}
        /\ resp.status = 500 =>
              /\ Len(resp.detail) = 3
              /\ resp.detail[1] # ""
              /\ resp.body = <<>>
        /\ ~Unpacks(req.features) =>
              resp.status = 500 /\ resp.detail[1] = "ValueError"
        /\ (Unpacks(req.features) /\ Rows(req) = 0
               /\ req.endpoint \in {"advanced", "compare"}) =>
              resp.status = 500 /\ resp.detail[1] = "HTTPException"
        /\ (Unpacks(req.features) /\ req.endpoint = "cluster"
               /\ Rows(req) < req.n_clusters) =>
              resp.status = 500 /\ resp.detail[1] = "HTTPException"
        /\ (Unpacks(req.features) /\ req.endpoint = "importance"
               /\ Len(req.feature_names) # Cols(req)) =>
              resp.status = 500 /\ resp.detail[1] = "HTTPException"
        /\ (req.endpoint = "advanced" /\ GraphFits /\ req.model_type \notin ModelTypes) =>
              resp.status = 500 /\ resp.detail[1] = "ValueError"

\* an exception raised late in a handler, after the clustering was computed
C13_Witness ==
    /\ Done("cluster")
    /\ resp.status = 500
    /\ resp.detail[1] = "IndexError"
    /\ Len(trace) > 0

\* the epochs e of range(E) with e % 10 = 0, in increasing order
Snapshots(E) == [i \in 1..((E + 9) \div 10) |-> 10 * (i - 1)]

\* C14: train_model called with an epoch count E in 0..500 performs exactly E
\* optimisation steps, records one snapshot for each epoch e in 0..E-1 with
\* e mod 10 = 0, in increasing order (ceil(E/10) of them), and returns the loss
\* of the last epoch as final_loss together with that history.
C14_TrainModelRunsAllEpochs ==
    call.fn = "train_model" =>
        /\ ~call.ret.raised
        /\ call.ret.steps = call.arg.epochs
        /\ call.ret.info.history = Snapshots(call.arg.epochs)
        /\ call.ret.info.final_loss = call.arg.epochs - 1

RECURSIVE SumOfGradients(_)
SumOfGradients(fi) ==
    IF Len(fi) = 0 THEN 0 ELSE fi[1].importance[1] + SumOfGradients(Tail(fi))

\* the values g / sum are numbers >= 0 that add up to 1
SumsToOne(fi) ==
    /\ Len(fi) > 0
    /\ \A k \in 1..Len(fi) :
          /\ fi[k].importance[2] > 0
          /\ fi[k].importance[1] >= 0
          /\ fi[k].importance[2] = fi[1].importance[2]
    /\ SumOfGradients(fi) = fi[1].importance[2]

\* C15: in every successful /gcn/importance response the importance values
\* are non-negative and sum to 1, there is exactly one entry per feature name,
\* the entries are in non-increasing order of importance and top_features is
\* the first min(5, F) of them.
C15_ImportanceNormalised ==
    (Done("importance") /\ resp.status = 200) =>
        LET fi == resp.body.feature_importance
            names == req.feature_names
        IN  /\ Len(fi) = Len(names)
            /\ \A i \in 1..Len(names) :
                  Cardinality({k \in 1..Len(fi) : fi[k].feature = names[i]}) = 1
            /\ SumsToOne(fi)
            /\ \A k \in 1..(Len(fi) - 1) :
                  fi[k].importance[1] >= fi[k + 1].importance[1]
            /\ resp.body.top_features = SubSeq(fi, 1, MinOf(5, Len(names)))

Scoring == req.endpoint \in {"predict", "advanced", "compare"}

\* the model of event k was created by the nearest create_model before it
CreatedBefore(k) ==
    \E c \in 1..(k - 1) :
        /\ trace[c].op = "create_model"
        /\ trace[c].model = trace[k].model
        /\ \A x \in (c + 1)..(k - 1) : trace[x].op # "create_model"

\* the number of scoring forward passes of the model created at event c
ForwardsOf(c) ==
    Cardinality({k \in (c + 1)..Len(trace) :
                    /\ trace[k].op = "forward"
                    /\ \A x \in (c + 1)..k : trace[x].op # "create_model"})

C17_RankingIsPermutation ==
    (Done("advanced") /\ WellFormed /\ GraphFits) =>
        /\ resp.status = 200
        /\ LET rk == resp.body.ranking
           IN  /\ Len(rk) = Rows(req)
               /\ \A i \in 1..Len(rk) : rk[i].rank = i
               /\ \A nd \in NodeSet(req) :
                     Cardinality({i \in 1..Len(rk) : rk[i].node = nd}) = 1
               /\ \A i \in 1..(Len(rk) - 1) : F32Le(rk[i + 1].score, rk[i].score)
               /\ \A i \in 1..Len(rk) : rk[i].score = resp.body.scores[rk[i].node]

====
